---- MODULE Spec2Model ----
(***************************************************************************)
(* bash-mini: a read / parse / execute shell loop (src/bash_mini.c).       *)
(*                                                                         *)
(* Text is a sequence of one-character strings.  A C string inside a       *)
(* buffer is the run of characters from a position up to the next NUL.     *)
(* Positions are 1-based: C index k is position k + 1.  A pointer into the *)
(* line buffer is a position; the NULL pointer is position 0.              *)
(***************************************************************************)
EXTENDS Integers, Sequences, FiniteSets, TLC

NUL == "NUL"
SP == " "
TAB == "\t"
NL == "\n"
NULLPTR == 0

PROMPT == "bash-mini$ "
INITIAL_BUFSZ == 1024
MAX_ARGS == 128
PATH_BUF_SZ == 4096

(***************************************************************************)
(* Bounds of the model.                                                    *)
(***************************************************************************)
\* Process ids the kernel hands out to fork.
MaxPid == 2
\* Largest number of tokens on a generated line of the tokenizer's inputs.
MaxTokens == 130
\* Largest length of the short input streams given to read_line on its own.
MaxStream == 4
\* Largest number of lines of the finite input streams of the whole shell.
MaxInputLines == 2
\* How far the longest command name given to the resolver on its own exceeds
\* the longest one whose $HOME candidate still fits the path buffer.
PathSlack == 1

(***************************************************************************)
(* Output: what one print_str or perror call hands to a descriptor.        *)
(***************************************************************************)
Lit(s) == [via |-> "write", lit |-> s, arg |-> <<>>]
Dyn(cs) == [via |-> "write", lit |-> "", arg |-> cs]
perror(label) == [via |-> "perror", lit |-> label, arg |-> <<>>]

(***************************************************************************)
(* u32_to_str: decimal digits, least significant first into tmp, then      *)
(* copied out in reverse.                                                  *)
(***************************************************************************)
DigitChar(d) == <<"0", "1", "2", "3", "4", "5", "6", "7", "8", "9">>[d + 1]

RECURSIVE u32_tmp(_)
u32_tmp(x) == IF x = 0 THEN <<>> ELSE <<DigitChar(x % 10)>> \o u32_tmp(x \div 10)

Reverse(s) == [i \in 1..Len(s) |-> s[Len(s) + 1 - i]]

u32_to_str_forward(x) == IF x = 0 THEN <<"0">> ELSE u32_tmp(x)

u32_to_str(x) == IF x = 0 THEN <<"0">> ELSE Reverse(u32_tmp(x))

(***************************************************************************)
(* C strings in a buffer.                                                  *)
(***************************************************************************)
\* The first position at or after p that holds NUL (strlen's scan).
StrEnd(b, p) == CHOOSE q \in p..Len(b) : b[q] = NUL /\ \A k \in p..(q - 1) : b[k] # NUL

CStr(b, p) == SubSeq(b, p, StrEnd(b, p) - 1)

StoreAtEnd(b, p, c) == Append(b, c)

\* A store into the buffer at a position at most one past what was ever stored.
Store(b, p, c) == IF p <= Len(b) THEN [b EXCEPT ![p] = c] ELSE Append(b, c)

(***************************************************************************)
(* parse_tokens: in-place tokenization by spaces and tabs.                 *)
(***************************************************************************)
IsSepSpaceOnly(c) == c = SP

IsSep(c) == c = SP \/ c = TAB

SkipSepOnce(b, p) == IF IsSep(b[p]) THEN p + 1 ELSE p

\* while (*p == ' ' || *p == '\t') p++;
SkipSep(b, p) == CHOOSE q \in p..Len(b) : ~IsSep(b[q]) /\ \A k \in p..(q - 1) : IsSep(b[k])

\* while (*p != '\0' && *p != ' ' && *p != '\t') p++;
SkipTok(b, p) ==
    CHOOSE q \in p..Len(b) :
        /\ (b[q] = NUL \/ IsSep(b[q]))
        /\ \A k \in p..(q - 1) : ~(b[k] = NUL \/ IsSep(b[k]))

ArgvFullOffByOne(n, max_args) == n >= max_args

\* if (argc >= max_args - 1) break;
ArgvFull(n, max_args) == n >= max_args - 1

RECURSIVE pt_loop(_, _, _, _)
\* One turn of while (*p != '\0'): q is p past the separators, e the end of
\* the token that starts at q.  The loop ends at the terminator, before or
\* after the separators, or when the array is full.
pt_loop(b, p, av, max_args) ==
    LET q == SkipSep(b, p)
        e == SkipTok(b, q)
    IN  IF b[p] = NUL \/ b[q] = NUL \/ ArgvFull(Len(av), max_args)
        THEN [line |-> b, argv |-> av]
        ELSE pt_loop(IF b[e] # NUL THEN [b EXCEPT ![e] = NUL] ELSE b,
                     IF b[e] # NUL THEN e + 1 ELSE e, Append(av, q), max_args)

\* argv holds the token pointers followed by the NULL sentinel at index argc.
parse_tokens(b, max_args) ==
    LET r == pt_loop(b, 1, <<>>, max_args) IN
    [line |-> r.line, argv |-> Append(r.argv, NULLPTR), argc |-> Len(r.argv)]

(***************************************************************************)
(* The environment and the file system as the shell sees them.             *)
(***************************************************************************)
\* getenv("HOME"): unset (NULL), empty, or a value.
HomeUnset == [set |-> FALSE, val |-> <<>>]
HomeValues ==
    { HomeUnset,
      [set |-> TRUE, val |-> <<>>],
      [set |-> TRUE, val |-> <<"/", "h">>],
      [set |-> TRUE, val |-> <<"/", "x">>] }

\* What a path names: nothing, a regular file with or without execute
\* permission, or a directory the caller may search.
Entries == {"missing", "file_nox", "file_x", "dir_x"}

accessExistsOnly(f, path) == IF path \in DOMAIN f /\ f[path] # "missing" THEN 0 ELSE -1

\* access(path, X_OK): 0 when the caller may execute the file or search the
\* directory that the path names.
access_X_OK(f, path) == IF path \in DOMAIN f /\ f[path] \in {"file_x", "dir_x"} THEN 0 ELSE -1

is_executable(f, path) == access_X_OK(f, path) = 0

BIN == <<"/", "b", "i", "n">>

\* memcpy(dir); '/'; memcpy(cmd); '\0'
PathOf(dir, cmd) == dir \o <<"/">> \o cmd

find_command_path_bin_first(cmd, home, out_path, out_sz, f) ==
    LET p2 == PathOf(BIN, cmd)
        p1 == PathOf(home.val, cmd)
    IN  IF is_executable(f, p2) THEN [ret |-> 1, out_path |-> p2]
        ELSE IF home.set /\ home.val # <<>> /\ is_executable(f, p1)
             THEN [ret |-> 1, out_path |-> p1]
             ELSE [ret |-> 0, out_path |-> p2]

find_command_path_unchecked(cmd, home, out_path, out_sz, f) ==
    LET tryHome == home.set /\ home.val # <<>>
        p1 == IF tryHome THEN PathOf(home.val, cmd) ELSE out_path
        p2 == PathOf(BIN, cmd)
    IN  IF tryHome /\ is_executable(f, p1) THEN [ret |-> 1, out_path |-> p1]
        ELSE IF is_executable(f, p2) THEN [ret |-> 1, out_path |-> p2]
        ELSE [ret |-> 0, out_path |-> p2]

find_command_path(cmd, home, out_path, out_sz, f) ==
    LET tryHome == home.set /\ home.val # <<>>
                   /\ Len(home.val) + 1 + Len(cmd) + 1 <= out_sz
        p1 == IF tryHome THEN PathOf(home.val, cmd) ELSE out_path
        tryBin == Len(BIN) + 1 + Len(cmd) + 1 <= out_sz
        p2 == IF tryBin THEN PathOf(BIN, cmd) ELSE p1
    IN  IF tryHome /\ is_executable(f, p1) THEN [ret |-> 1, out_path |-> p1]
        ELSE IF tryBin /\ is_executable(f, p2) THEN [ret |-> 1, out_path |-> p2]
        ELSE [ret |-> 0, out_path |-> p2]

\* The paths find_command_path may test for a command name.
Candidates(cmd, home) ==
    {PathOf(BIN, cmd)} \cup (IF home.set THEN {PathOf(home.val, cmd)} ELSE {})

(***************************************************************************)
(* chdir(2) on a small directory tree.  A directory is the sequence of its *)
(* path components, the root being the empty sequence.                     *)
(***************************************************************************)
Dirs == { <<>>, << <<"h">> >>, << <<"t">> >>, << <<"h">>, <<"t">> >> }

RECURSIVE Components(_, _)
Components(s, cur) ==
    IF s = <<>> THEN (IF cur = <<>> THEN <<>> ELSE <<cur>>)
    ELSE IF Head(s) = "/"
         THEN (IF cur = <<>> THEN <<>> ELSE <<cur>>) \o Components(Tail(s), <<>>)
         ELSE Components(Tail(s), Append(cur, Head(s)))

RECURSIVE Walk(_, _)
Walk(d, comps) ==
    IF d \notin Dirs THEN [ret |-> -1, dir |-> d]
    ELSE IF comps = <<>> THEN [ret |-> 0, dir |-> d]
    ELSE LET c == Head(comps) IN
         IF c = <<".">> THEN Walk(d, Tail(comps))
         ELSE IF c = <<".", ".">>
              THEN Walk(IF d = <<>> THEN d ELSE SubSeq(d, 1, Len(d) - 1), Tail(comps))
              ELSE Walk(Append(d, c), Tail(comps))

chdir_from_cwd(wd, target) ==
    IF target = <<>> THEN [ret |-> -1, dir |-> wd]
    ELSE LET r == Walk(wd, Components(target, <<>>))
         IN  IF r.ret = 0 THEN r ELSE [ret |-> -1, dir |-> wd]

chdir(wd, target) ==
    IF target = <<>> THEN [ret |-> -1, dir |-> wd]
    ELSE LET r == Walk(IF Head(target) = "/" THEN <<>> ELSE wd, Components(target, <<>>))
         IN  IF r.ret = 0 THEN r ELSE [ret |-> -1, dir |-> wd]

(***************************************************************************)
(* Wait status words and the macros of <sys/wait.h>.                       *)
(***************************************************************************)
ExitCodes == {0, 3, 10, 127, 255}

W_EXITCODE(c) == (c % 256) * 256
W_SIGNALED(s, core) == s + (IF core THEN 128 ELSE 0)
W_STOPPED(s) == s * 256 + 127

StatusWords ==
    {W_EXITCODE(c) : c \in ExitCodes} \cup {W_SIGNALED(9, FALSE), W_SIGNALED(11, TRUE), W_STOPPED(19)}

WIFEXITED(w) == (w % 128) = 0
WEXITSTATUS(w) == (w \div 256) % 256
WIFSIGNALED(w) == (w % 128) \notin {0, 127}
WTERMSIG(w) == w % 128

(***************************************************************************)
(* The lines a user types.                                                 *)
(***************************************************************************)
W_exit == <<"e", "x", "i", "t">>
W_cd == <<"c", "d">>
W_ls == <<"l", "s">>
W_dot == <<".">>

Lines ==
    { <<>>, <<SP>>, <<TAB>>, <<SP, TAB, SP>>,
      W_exit, W_exit \o <<SP, "x">>, <<SP>> \o W_exit \o <<TAB>>,
      W_exit \o <<"x">>, <<"x">> \o W_exit,
      W_cd, W_cd \o <<SP, "/", "t">>, W_cd \o <<TAB, "t">>, W_cd \o <<SP, ".", ".">>,
      W_cd \o <<SP, "/", "x">>, W_cd \o <<SP, "/", "h", SP, "t">>,
      W_ls, W_ls \o <<SP, "-", "l">>, <<TAB>> \o W_ls \o <<SP, SP, "-", "l", SP>>,
      W_dot }

\* What the input stream delivers to one call of read_line: the bytes of a
\* line, then a newline, the end of the stream, or a read error.
Chunks ==
    {[bytes |-> l \o <<NL>>, end |-> "EOF"] : l \in Lines}
        \cup {[bytes |-> l, end |-> e] : l \in Lines, e \in {"EOF", "ERR"}}

Pids == 1..MaxPid

VARIABLES
    pc,           \* the shell's position in main / execute_external
    exit_status,  \* the shell's own exit status once pc = "exited"
    frees,        \* calls of free(line)
    line,         \* the bytes stored in the input buffer so far (main: line)
    cap,          \* main: cap
    buf,          \* the buffer's allocation: "null", "alloc" or "freed"
    len,          \* read_line: len
    rr,           \* main: rr
    stdin,        \* what read(2) on standard input will deliver
    tty,          \* standard input is a terminal: each line is typed after its prompt
    src,          \* the whole input stream when standard input is a finite file or pipe
    got,          \* what the calls of read_line have returned, for read_line on its own
    typed,        \* the line as read_line returned it, before tokenization
    argv,         \* main: argv, the token pointers and the NULL sentinel
    argc,         \* main: argc
    env,          \* getenv("HOME")
    cwd,          \* the shell's working directory
    cwd0,         \* the working directory when the current prompt was written
    prev_cd,      \* the previous command line, when it was a cd whose chdir succeeded
    fs,           \* what each candidate path of the current command names
    path_buf,     \* execute_external: path_buf
    found,        \* find_command_path's result in this iteration: "none", "yes", "no"
    children,     \* the shell's child processes, by pid
    pid,          \* execute_external: pid
    status,       \* execute_external: status
    out,          \* standard output since (and with) the current prompt
    err,          \* standard error since the current prompt
    ev            \* system call results since the current prompt

vars ==
    <<pc, exit_status, frees, line, cap, buf, len, rr, stdin, tty, src, got, typed, argv,
      argc, env, cwd, cwd0, prev_cd, fs, path_buf, found, children, pid, status, out, err, ev>>

procvars == <<children, pid, status>>
linevars == <<line, cap, buf, len, rr, stdin, tty, src, got, typed>>
argvars == <<argv, argc>>
resvars == <<fs, path_buf, found>>
dirvars == <<env, cwd, cwd0, prev_cd>>

NoStdin == [bytes |-> <<>>, end |-> "EOF"]

NoPrevCd == [ok |-> FALSE, line |-> <<>>]

Init ==
    /\ pc = "prompt"
    /\ exit_status = -1
    /\ frees = 0
    /\ line = <<>>
    /\ cap = 0
    /\ buf = "null"
    /\ len = 0
    /\ rr = 1
    /\ stdin = NoStdin
    /\ tty = TRUE
    /\ src = <<>>
    /\ got = <<>>
    /\ typed = <<>>
    /\ argv = <<NULLPTR>>
    /\ argc = 0
    /\ env \in HomeValues
    /\ cwd \in Dirs
    /\ cwd0 = cwd
    /\ prev_cd = NoPrevCd
    /\ fs = <<>>
    /\ path_buf = <<>>
    /\ found = "none"
    /\ children = <<>>
    /\ pid = 0
    /\ status = 0
    /\ out = <<>>
    /\ err = <<>>
    /\ ev = <<>>

(***************************************************************************)
(* write_all: a failed write(2) ends the process with _exit(1).  Of the    *)
(* print_str calls items[1..n] made in a row, the first k succeed.         *)
(***************************************************************************)
Written(log, items, k) == log \o SubSeq(items, 1, k)

write_all_fatal ==
    /\ pc' = "exited"
    /\ exit_status' = 1

(***************************************************************************)
(* main: the prompt.                                                       *)
(***************************************************************************)
main_prompt ==
    /\ pc = "prompt"
    /\ \E k \in 0..1 :
        /\ out' = Written(<<>>, <<Lit(PROMPT)>>, k)
        /\ IF k = 1 THEN pc' = "read_line" /\ UNCHANGED exit_status
                    ELSE write_all_fatal
    /\ err' = <<>>
    /\ ev' = <<>>
    /\ found' = "none"
    /\ cwd0' = cwd
    /\ typed' = <<>>
    \* rr, argv and argc are locals of the loop body, and path_buf, pid and
    \* status locals of execute_external: a new iteration starts without them.
    /\ rr' = 1
    /\ len' = 0
    /\ argv' = <<NULLPTR>>
    /\ argc' = 0
    /\ fs' = <<>>
    /\ path_buf' = <<>>
    /\ pid' = 0
    /\ status' = 0
    \* At a terminal the next line is typed only now.
    /\ stdin' = IF tty THEN NoStdin ELSE stdin
    /\ prev_cd' = IF ev = <<<<"chdir", 0>>>> THEN [ok |-> TRUE, line |-> typed] ELSE NoPrevCd
    /\ UNCHANGED <<frees, line, cap, buf, tty, src, got, env, cwd, children>>

(***************************************************************************)
(* read_line.                                                              *)
(***************************************************************************)
\* The bytes an earlier line left in the reused buffer: read_line stores each
\* byte before anything reads it, so only their presence is kept.
STALE == "STALE"
Stale(b) == [i \in 1..Len(b) |-> STALE]

\* Entry: the lazy allocation, and len = 0.  The input stream's next bytes
\* are whatever the user types now.
read_line_enter ==
    /\ pc = "read_line"
    /\ IF tty THEN \E c \in Chunks : stdin' = c ELSE UNCHANGED stdin
    /\ IF buf = "null" \/ cap = 0
       THEN /\ cap' = INITIAL_BUFSZ
            /\ \E ok \in BOOLEAN :
                IF ok THEN buf' = "alloc" /\ line' = <<>> /\ pc' = "read_loop" /\ rr' = rr
                      ELSE buf' = buf /\ line' = line /\ pc' = "main_rr" /\ rr' = -1
       ELSE pc' = "read_loop" /\ line' = Stale(line) /\ UNCHANGED <<cap, buf, rr>>
    /\ len' = 0
    /\ UNCHANGED <<exit_status, frees, tty, src, got, typed, out, err, ev>>
    /\ UNCHANGED <<argvars, dirvars, resvars, procvars>>

NeedsGrowthWhenFull(l, c) == l > c

\* if (len + 2 > *cap)
NeedsGrowth(l, c) == l + 2 > c

\* One turn of the for (;;) loop: grow if needed, read one byte, act on it.
read_line_step ==
    /\ pc = "read_loop"
    /\ \E grown \in BOOLEAN :
        /\ ~NeedsGrowth(len, cap) => grown
        /\ IF ~grown
           THEN \* realloc failed
                /\ rr' = -1
                /\ pc' = "main_rr"
                /\ UNCHANGED <<line, cap, len, stdin, typed>>
           ELSE /\ cap' = IF NeedsGrowth(len, cap) THEN cap * 2 ELSE cap
                /\ IF stdin.bytes = <<>>
                   THEN IF stdin.end = "ERR"
                        THEN rr' = -1 /\ pc' = "main_rr" /\ UNCHANGED <<line, len, stdin, typed>>
                        ELSE IF len = 0
                             THEN rr' = 0 /\ pc' = "main_rr"
                                  /\ UNCHANGED <<line, len, stdin, typed>>
                             ELSE /\ line' = Store(line, len + 1, NUL)
                                  /\ typed' = CStr(line', 1)
                                  /\ rr' = 1
                                  /\ pc' = "main_rr"
                                  /\ UNCHANGED <<len, stdin>>
                   ELSE /\ stdin' = [stdin EXCEPT !.bytes = Tail(@)]
                        /\ IF Head(stdin.bytes) = NL
                           THEN /\ line' = Store(line, len + 1, NUL)
                                /\ typed' = CStr(line', 1)
                                /\ rr' = 1
                                /\ pc' = "main_rr"
                                /\ len' = len
                           ELSE /\ line' = Store(line, len + 1, Head(stdin.bytes))
                                /\ len' = len + 1
                                /\ UNCHANGED <<rr, pc, typed>>
    /\ UNCHANGED <<exit_status, frees, buf, tty, src, got, out, err, ev>>
    /\ UNCHANGED <<argvars, dirvars, resvars, procvars>>

(***************************************************************************)
(* main: after read_line.                                                  *)
(***************************************************************************)
\* if (rr < 0) { perror("read"); break; }
main_read_error ==
    /\ pc = "main_rr"
    /\ rr < 0
    /\ err' = Append(err, perror("read"))
    /\ pc' = "free"
    /\ UNCHANGED <<exit_status, frees, out, ev>>
    /\ UNCHANGED <<linevars, argvars, dirvars, resvars, procvars>>

main_eof_continue ==
    /\ pc = "main_rr"
    /\ rr = 0
    /\ pc' = "prompt"
    /\ UNCHANGED <<exit_status, frees, out, err, ev>>
    /\ UNCHANGED <<linevars, argvars, dirvars, resvars, procvars>>

main_eof_silent ==
    /\ pc = "main_rr"
    /\ rr = 0
    /\ pc' = "free"
    /\ UNCHANGED <<exit_status, frees, out, err, ev>>
    /\ UNCHANGED <<linevars, argvars, dirvars, resvars, procvars>>

\* if (rr == 0) { print_str(STDOUT_FILENO, "\n"); break; }
main_eof ==
    /\ pc = "main_rr"
    /\ rr = 0
    /\ \E k \in 0..1 :
        /\ out' = Written(out, <<Lit("\n")>>, k)
        /\ IF k = 1 THEN pc' = "free" /\ UNCHANGED exit_status
                    ELSE write_all_fatal
    /\ UNCHANGED <<frees, err, ev>>
    /\ UNCHANGED <<linevars, argvars, dirvars, resvars, procvars>>

\* if (line[0] == '\0') continue;
main_empty_line ==
    /\ pc = "main_rr"
    /\ rr > 0
    /\ line[1] = NUL
    /\ pc' = "prompt"
    /\ UNCHANGED <<exit_status, frees, out, err, ev>>
    /\ UNCHANGED <<linevars, argvars, dirvars, resvars, procvars>>

\* argc = parse_tokens(line, argv, MAX_ARGS); if (argc == 0) continue;
main_parse ==
    /\ pc = "main_rr"
    /\ rr > 0
    /\ line[1] # NUL
    /\ LET r == parse_tokens(line, MAX_ARGS) IN
        /\ line' = r.line
        /\ argv' = r.argv
        /\ argc' = r.argc
        /\ pc' = IF r.argc = 0 THEN "prompt" ELSE "dispatch"
    /\ UNCHANGED <<exit_status, frees, out, err, ev>>
    /\ UNCHANGED <<cap, buf, len, rr, stdin, tty, src, got, typed>>
    /\ UNCHANGED <<dirvars, resvars, procvars>>

\* The C string argv[i] (0-based i).
Arg(i) == CStr(line, argv[i + 1])

strcmp_prefix(a, b) == IF Len(a) >= Len(b) /\ SubSeq(a, 1, Len(b)) = b THEN 0 ELSE 1

strcmp(a, b) == IF a = b THEN 0 ELSE 1

\* if (strcmp(argv[0], "exit") == 0) break;
main_exit ==
    /\ pc = "dispatch"
    /\ strcmp(Arg(0), W_exit) = 0
    /\ pc' = "free"
    /\ UNCHANGED <<exit_status, frees, out, err, ev>>
    /\ UNCHANGED <<linevars, argvars, dirvars, resvars, procvars>>

(***************************************************************************)
(* handle_cd.                                                              *)
(***************************************************************************)
cd_target_home == env.val

\* target = (argc < 2) ? getenv("HOME") : argv[1]
cd_target == IF argc < 2 THEN env.val ELSE Arg(1)

handle_cd ==
    /\ pc = "dispatch"
    /\ strcmp(Arg(0), W_exit) # 0
    /\ strcmp(Arg(0), W_cd) = 0
    /\ IF argc < 2 /\ (~env.set \/ env.val = <<>>)
       THEN /\ \E k \in 0..1 :
                /\ err' = Written(err, <<Lit("cd: HOME not set\n")>>, k)
                /\ IF k = 1 THEN pc' = "prompt" /\ UNCHANGED exit_status
                            ELSE write_all_fatal
            /\ UNCHANGED <<cwd, ev>>
       ELSE LET r == chdir(cwd, cd_target)
            IN  /\ cwd' = r.dir
                /\ ev' = Append(ev, <<"chdir", r.ret>>)
                /\ err' = IF r.ret # 0 THEN Append(err, perror("cd")) ELSE err
                /\ pc' = "prompt"
                /\ UNCHANGED exit_status
    /\ UNCHANGED <<frees, out, env, cwd0, prev_cd>>
    /\ UNCHANGED <<linevars, argvars, resvars, procvars>>

(***************************************************************************)
(* execute_external.                                                       *)
(***************************************************************************)
print_unknown_command_two_lines(cmd) ==
    <<Lit("]"), Dyn(cmd), Lit("\n"), Lit("]: Unknown Command[\n")>>

\* print_unknown_command: three print_str calls to standard error.
print_unknown_command(cmd) == <<Lit("]"), Dyn(cmd), Lit("]: Unknown Command[\n")>>

\* find_command_path, and the unknown-command return.
execute_external_find ==
    /\ pc = "dispatch"
    /\ strcmp(Arg(0), W_exit) # 0
    /\ strcmp(Arg(0), W_cd) # 0
    /\ \E f \in [Candidates(Arg(0), env) -> Entries] :
        LET r == find_command_path(Arg(0), env, path_buf, PATH_BUF_SZ, f) IN
        /\ fs' = f
        /\ path_buf' = r.out_path
        /\ IF r.ret = 0
           THEN /\ found' = "no"
                /\ LET items == print_unknown_command(Arg(0)) IN
                   \E k \in 0..Len(items) :
                    /\ err' = Written(err, items, k)
                    /\ IF k = Len(items) THEN pc' = "prompt" /\ UNCHANGED exit_status
                                         ELSE write_all_fatal
           ELSE /\ found' = "yes"
                /\ pc' = "fork"
                /\ UNCHANGED <<err, exit_status>>
    /\ UNCHANGED <<frees, out, ev>>
    /\ UNCHANGED <<linevars, argvars, dirvars, procvars>>

\* The strings of the vector argv, up to its NULL sentinel.
ArgVector ==
    LET n == CHOOSE k \in 0..(Len(argv) - 1) :
                 argv[k + 1] = NULLPTR /\ \A j \in 1..k : argv[j] # NULLPTR
    IN  [k \in 1..n |-> CStr(line, argv[k])]

NewChildPathAsArgv0 ==
    [pc |-> "execv", path |-> path_buf, argv0 |-> path_buf,
     args |-> [ArgVector EXCEPT ![1] = path_buf], status |-> 0]

\* The child starts as a copy of the shell, about to call execv(path_buf, argv).
NewChild ==
    [pc |-> "execv", path |-> path_buf, argv0 |-> Arg(0), args |-> ArgVector, status |-> 0]

\* pid = fork(); if (pid < 0) { perror("fork"); return; }
execute_external_fork ==
    /\ pc = "fork"
    /\ \/ /\ pid' = -1
          /\ ev' = Append(ev, <<"fork", -1>>)
          /\ err' = Append(err, perror("fork"))
          /\ pc' = "prompt"
          /\ UNCHANGED <<children, status>>
       \/ \E p \in Pids \ DOMAIN children :
          /\ pid' = p
          /\ children' = (p :> NewChild) @@ children
          /\ ev' = Append(ev, <<"fork", p>>)
          /\ pc' = "waitpid"
          /\ UNCHANGED <<err, status>>
    /\ UNCHANGED <<exit_status, frees, out>>
    /\ UNCHANGED <<linevars, argvars, dirvars, resvars>>

(***************************************************************************)
(* The child process.                                                      *)
(***************************************************************************)
\* execv replaces the image only of a regular file the caller may execute.
execv_may_succeed(c) == c.path \in DOMAIN fs /\ fs[c.path] = "file_x"

child_falls_through(c) == [c EXCEPT !.pc = "waitpid"]

\* perror("exec") is done; _exit(127).
child_exit_127(c) == [c EXCEPT !.pc = "zombie", !.status = W_EXITCODE(127)]

child_execv ==
    /\ \E p \in DOMAIN children :
        /\ children[p].pc = "execv"
        /\ \/ /\ execv_may_succeed(children[p])
              /\ children' = [children EXCEPT ![p].pc = "program"]
              /\ UNCHANGED err
           \/ /\ err' = Append(err, perror("exec"))
              /\ children' = [children EXCEPT ![p] = child_exit_127(@)]
    /\ UNCHANGED <<pc, exit_status, frees, out, ev, pid, status>>
    /\ UNCHANGED <<linevars, argvars, dirvars, resvars>>

\* The program the child became ends, by exit or by a signal.
child_terminates ==
    /\ \E p \in DOMAIN children :
        /\ children[p].pc = "program"
        /\ \E w \in StatusWords :
            children' = [children EXCEPT ![p].pc = "zombie", ![p].status = w]
    /\ UNCHANGED <<pc, exit_status, frees, out, err, ev, pid, status>>
    /\ UNCHANGED <<linevars, argvars, dirvars, resvars>>

(***************************************************************************)
(* execute_external: the parent after fork.                                *)
(***************************************************************************)
waitpid_nohang(c) == TRUE

\* waitpid(pid, &status, 0) returns only once the child has terminated.  The
\* shell installs no signal handler, so the call is never interrupted; it
\* fails (ECHILD) only when the terminated child was reaped without it.
waitpid_returns(c) == c.pc = "zombie"

\* The kernel removes a terminated child from the process table.
Reap(ch, p) == IF ch[p].pc = "zombie" THEN [q \in DOMAIN ch \ {p} |-> ch[q]] ELSE ch

after_waitpid_unchecked(ret) == "report"

\* if (waitpid(pid, &status, 0) < 0) { perror("waitpid"); return; }
after_waitpid(ret) == IF ret < 0 THEN "prompt" ELSE "report"

execute_external_waitpid ==
    /\ pc = "waitpid"
    /\ pid \in DOMAIN children
    /\ waitpid_returns(children[pid])
    /\ children' = Reap(children, pid)
    /\ \E ret \in {pid, -1} :
        /\ ev' = Append(ev, <<"waitpid", ret>>)
        /\ status' = IF ret < 0 THEN status ELSE children[pid].status
        /\ err' = IF ret < 0 THEN Append(err, perror("waitpid")) ELSE err
        /\ pc' = after_waitpid(ret)
    /\ UNCHANGED <<exit_status, frees, out, pid>>
    /\ UNCHANGED <<linevars, argvars, dirvars, resvars>>

Banner == Lit("Command executed successfully.\n")

StatusLine(w) ==
    IF WIFEXITED(w)
    THEN <<Lit("Command finished. Return code: "), Dyn(u32_to_str(WEXITSTATUS(w))), Lit("\n")>>
    ELSE IF WIFSIGNALED(w)
         THEN <<Lit("Command terminated by signal: "), Dyn(u32_to_str(WTERMSIG(w))), Lit("\n")>>
         ELSE <<Lit("Command finished with unknown status.\n")>>

ReportBannerOnZero(w) == (IF w = 0 THEN <<Banner>> ELSE <<>>) \o StatusLine(w)

\* The print_str calls that follow a successful waitpid.
Report(w) == <<Banner>> \o StatusLine(w)

execute_external_report ==
    /\ pc = "report"
    /\ LET items == Report(status) IN
       \E k \in 0..Len(items) :
        /\ out' = Written(out, items, k)
        /\ IF k = Len(items) THEN pc' = "prompt" /\ UNCHANGED exit_status
                             ELSE write_all_fatal
    /\ UNCHANGED <<frees, err, ev>>
    /\ UNCHANGED <<linevars, argvars, dirvars, resvars, procvars>>

(***************************************************************************)
(* main: after the loop.                                                   *)
(***************************************************************************)
\* free(line); return 0;
main_free ==
    /\ pc = "free"
    /\ frees' = frees + 1
    /\ buf' = IF buf = "alloc" THEN "freed" ELSE buf
    /\ exit_status' = 0
    /\ pc' = "exited"
    /\ UNCHANGED <<line, cap, len, rr, stdin, tty, src, got, typed, out, err, ev>>
    /\ UNCHANGED <<argvars, dirvars, resvars, procvars>>

Next ==
    \/ main_prompt
    \/ read_line_enter
    \/ read_line_step
    \/ main_read_error
    \/ main_eof
    \/ main_empty_line
    \/ main_parse
    \/ main_exit
    \/ handle_cd
    \/ execute_external_find
    \/ execute_external_fork
    \/ child_execv
    \/ child_terminates
    \/ execute_external_waitpid
    \/ execute_external_report
    \/ main_free

Spec == Init /\ [][Next]_vars

(***************************************************************************)
(* The shell on a finite input stream (a file or a pipe): the stream is    *)
(* fixed at the start and its end stays its end.  The shell is one         *)
(* sequential process, so the step it is at is eventually taken; a child   *)
(* is assumed to reach execv and the program it runs to terminate.         *)
(***************************************************************************)
TermLines == {<<>>, W_ls, W_cd, W_exit}

RECURSIVE JoinLines(_)
JoinLines(ls) == IF ls = <<>> THEN <<>> ELSE Head(ls) \o <<NL>> \o JoinLines(Tail(ls))

\* Up to MaxInputLines lines, the last one with or without its newline.
TermStreams ==
    LET Seqs == UNION {[1..n -> TermLines] : n \in 0..MaxInputLines} IN
    {JoinLines(ls) : ls \in Seqs}
        \cup {SubSeq(JoinLines(ls), 1, Len(JoinLines(ls)) - 1) : ls \in Seqs \ {<<>>}}

InitTerm ==
    /\ pc = "prompt"
    /\ \E s \in TermStreams, e \in {"EOF", "ERR"} :
        /\ stdin = [bytes |-> s, end |-> e]
        /\ src = s
    /\ tty = FALSE
    /\ got = <<>>
    /\ exit_status = -1
    /\ frees = 0
    /\ line = <<>>
    /\ cap = 0
    /\ buf = "null"
    /\ len = 0
    /\ rr = 1
    /\ typed = <<>>
    /\ argv = <<NULLPTR>>
    /\ argc = 0
    /\ env = HomeUnset
    /\ cwd = <<>>
    /\ cwd0 = <<>>
    /\ prev_cd = NoPrevCd
    /\ fs = <<>>
    /\ path_buf = <<>>
    /\ found = "none"
    /\ children = <<>>
    /\ pid = 0
    /\ status = 0
    /\ out = <<>>
    /\ err = <<>>
    /\ ev = <<>>

\* The steps of the shell process itself.
ShellStep ==
    \/ main_prompt
    \/ read_line_enter
    \/ read_line_step
    \/ main_read_error
    \/ main_eof
    \/ main_empty_line
    \/ main_parse
    \/ main_exit
    \/ handle_cd
    \/ execute_external_find
    \/ execute_external_fork
    \/ execute_external_waitpid
    \/ execute_external_report
    \/ main_free

SpecTerm ==
    /\ InitTerm
    /\ [][Next]_vars
    /\ WF_vars(ShellStep)
    /\ WF_vars(child_execv)
    /\ WF_vars(child_terminates)

(***************************************************************************)
(* parse_tokens on its own: the tokenizer applied to generated lines of up *)
(* to MaxTokens tokens, token k being the three decimal digits of k.       *)
(***************************************************************************)
\* Token k: the three decimal digits of k.
GenToken(k) == <<DigitChar(k \div 100), DigitChar((k \div 10) % 10), DigitChar(k % 10)>>

\* Tokens 1..n, each followed by the separator sep except the last.
GenLine(n, sep) ==
    LET w == 3 + Len(sep) IN
    [i \in 1..(IF n = 0 THEN 0 ELSE n * w - Len(sep)) |->
        LET k == ((i - 1) \div w) + 1
            j == ((i - 1) % w) + 1
        IN  IF j <= 3 THEN GenToken(k)[j] ELSE sep[j - 3]]

GenSeps == { <<SP>>, <<TAB>>, <<SP, TAB, SP>> }

GenLines ==
    { lead \o GenLine(n, sep) \o trail :
        n \in 0..MaxTokens, sep \in GenSeps, lead \in {<<>>, <<SP>>}, trail \in {<<>>, <<TAB>>} }

InitParse ==
    /\ pc = "parse_tokens"
    /\ \E l \in GenLines : typed = l /\ line = l \o <<NUL>>
    /\ exit_status = -1
    /\ frees = 0
    /\ cap = INITIAL_BUFSZ
    /\ buf = "alloc"
    /\ len = 0
    /\ rr = 1
    /\ stdin = NoStdin
    /\ tty = TRUE
    /\ src = <<>>
    /\ got = <<>>
    /\ argv = <<NULLPTR>>
    /\ argc = 0
    /\ env = HomeUnset
    /\ cwd = <<>>
    /\ cwd0 = <<>>
    /\ prev_cd = NoPrevCd
    /\ fs = <<>>
    /\ path_buf = <<>>
    /\ found = "none"
    /\ children = <<>>
    /\ pid = 0
    /\ status = 0
    /\ out = <<>>
    /\ err = <<>>
    /\ ev = <<>>

parse_tokens_call ==
    /\ pc = "parse_tokens"
    /\ LET r == parse_tokens(line, MAX_ARGS) IN
        /\ line' = r.line
        /\ argv' = r.argv
        /\ argc' = r.argc
    /\ pc' = "parse_tokens_done"
    /\ UNCHANGED <<exit_status, frees, out, err, ev>>
    /\ UNCHANGED <<cap, buf, len, rr, stdin, tty, src, got, typed>>
    /\ UNCHANGED <<dirvars, resvars, procvars>>

NextParse == parse_tokens_call

SpecParse == InitParse /\ [][NextParse]_vars

(***************************************************************************)
(* read_line on its own: a caller that calls it on a finite stream until   *)
(* it returns no line.  The streams are all the short ones over a letter,  *)
(* the newline and the NUL byte, and long lines around the sizes at which  *)
(* the buffer grows, alone or followed by a short line.                    *)
(***************************************************************************)
ReadBytes == {"a", NL, NUL}

ShortStreams == UNION {[1..n -> ReadBytes] : n \in 0..MaxStream}

\* A line of n bytes, byte i being the last decimal digit of i.
LongLine(n) == [i \in 1..n |-> DigitChar(i % 10)]

LongLens == {INITIAL_BUFSZ - 2, INITIAL_BUFSZ - 1, 2 * INITIAL_BUFSZ - 1}

LongStreams ==
    {LongLine(n) \o t : n \in LongLens, t \in {<<>>, <<NL>>, <<NL, "b">>, <<NL, "b", NL>>}}

InitRead ==
    /\ pc = "read_line"
    /\ \E s \in ShortStreams \cup LongStreams, e \in {"EOF", "ERR"} :
        /\ stdin = [bytes |-> s, end |-> e]
        /\ src = s
    /\ tty = FALSE
    /\ got = <<>>
    /\ exit_status = -1
    /\ frees = 0
    /\ line = <<>>
    /\ cap = 0
    /\ buf = "null"
    /\ len = 0
    /\ rr = 1
    /\ typed = <<>>
    /\ argv = <<NULLPTR>>
    /\ argc = 0
    /\ env = HomeUnset
    /\ cwd = <<>>
    /\ cwd0 = <<>>
    /\ prev_cd = NoPrevCd
    /\ fs = <<>>
    /\ path_buf = <<>>
    /\ found = "none"
    /\ children = <<>>
    /\ pid = 0
    /\ status = 0
    /\ out = <<>>
    /\ err = <<>>
    /\ ev = <<>>

\* The caller: it keeps what read_line returned (the value, the len bytes of
\* the buffer, the buffer as a C string) and calls again after a line.
read_line_return ==
    /\ pc = "main_rr"
    /\ got' = Append(got, [rr |-> rr,
                           bytes |-> IF rr > 0 THEN SubSeq(line, 1, len) ELSE <<>>,
                           str |-> IF rr > 0 THEN CStr(line, 1) ELSE <<>>])
    /\ pc' = IF rr > 0 THEN "read_line" ELSE "read_done"
    /\ UNCHANGED <<exit_status, frees, line, cap, buf, len, rr, stdin, tty, src, typed,
                   out, err, ev>>
    /\ UNCHANGED <<argvars, dirvars, resvars, procvars>>

NextRead ==
    \/ read_line_enter
    \/ read_line_step
    \/ read_line_return

SpecRead == InitRead /\ [][NextRead]_vars

(***************************************************************************)
(* From the tokenizer to execv: read_line has just returned a generated    *)
(* line of few tokens or of about MAX_ARGS tokens; main tokenizes it and   *)
(* execute_external resolves the command, forks, and the child calls       *)
(* execv.                                                                  *)
(***************************************************************************)
ArgvLines ==
    { lead \o GenLine(n, sep) \o trail :
        n \in (0..2) \cup ((MAX_ARGS - 2)..MaxTokens), sep \in GenSeps,
        lead \in {<<>>, <<SP>>}, trail \in {<<>>, <<TAB>>} }

InitArgv ==
    /\ pc = "main_rr"
    /\ \E l \in ArgvLines : typed = l /\ line = l \o <<NUL>> /\ len = Len(l)
    /\ rr = 1
    /\ cap = INITIAL_BUFSZ
    /\ buf = "alloc"
    /\ env \in {HomeUnset, [set |-> TRUE, val |-> <<"/", "h">>]}
    /\ exit_status = -1
    /\ frees = 0
    /\ stdin = NoStdin
    /\ tty = TRUE
    /\ src = <<>>
    /\ got = <<>>
    /\ argv = <<NULLPTR>>
    /\ argc = 0
    /\ cwd = <<>>
    /\ cwd0 = <<>>
    /\ prev_cd = NoPrevCd
    /\ fs = <<>>
    /\ path_buf = <<>>
    /\ found = "none"
    /\ children = <<>>
    /\ pid = 0
    /\ status = 0
    /\ out = <<Lit(PROMPT)>>
    /\ err = <<>>
    /\ ev = <<>>

NextArgv ==
    \/ main_empty_line
    \/ main_parse
    \/ execute_external_find
    \/ execute_external_fork
    \/ child_execv

SpecArgv == InitArgv /\ [][NextArgv]_vars

(***************************************************************************)
(* The resolver on its own: execute_external is entered with a command     *)
(* name and a HOME whose candidate paths are around the size of path_buf.  *)
(***************************************************************************)
LongName(n) == SubSeq([i \in 1..n |-> "c"], 1, n)

\* With HOME = /h the longest name whose /bin candidate fits has
\* PATH_BUF_SZ - 6 characters, and whose $HOME candidate fits PATH_BUF_SZ - 4.
CmdLens == {1} \cup ((PATH_BUF_SZ - 11)..(PATH_BUF_SZ - 4 + PathSlack))

LongHome(n) == SubSeq([i \in 1..n |-> IF i = 1 THEN "/" ELSE "h"], 1, n)

FindHomes ==
    { HomeUnset,
      [set |-> TRUE, val |-> <<"/", "h">>],
      [set |-> TRUE, val |-> LongHome(8)],
      [set |-> TRUE, val |-> LongHome(PATH_BUF_SZ - 1)] }

InitFind ==
    /\ pc = "dispatch"
    /\ \E n \in CmdLens :
        /\ typed = LongName(n)
        /\ line = LongName(n) \o <<NUL>>
        /\ len = n
    /\ env \in FindHomes
    /\ argv = <<1, NULLPTR>>
    /\ argc = 1
    /\ cap = 8 * INITIAL_BUFSZ
    /\ buf = "alloc"
    /\ rr = 1
    /\ exit_status = -1
    /\ frees = 0
    /\ stdin = NoStdin
    /\ tty = TRUE
    /\ src = <<>>
    /\ got = <<>>
    /\ cwd = <<>>
    /\ cwd0 = <<>>
    /\ prev_cd = NoPrevCd
    /\ fs = <<>>
    /\ path_buf = <<>>
    /\ found = "none"
    /\ children = <<>>
    /\ pid = 0
    /\ status = 0
    /\ out = <<Lit(PROMPT)>>
    /\ err = <<>>
    /\ ev = <<>>

NextFind == execute_external_find

SpecFind == InitFind /\ [][NextFind]_vars

(***************************************************************************)
(* Vocabulary of the properties.                                           *)
(***************************************************************************)
WS == {SP, TAB}

Blank(s) == \A i \in 1..Len(s) : s[i] \in WS

\* The positions of s where a maximal run of non-blank characters starts.
TokenStarts(s) == {i \in 1..Len(s) : s[i] \notin WS /\ (i = 1 \/ s[i - 1] \in WS)}

\* The maximal run of non-blank characters of s that starts at i.
TokenAt(s, i) ==
    LET j == CHOOSE j \in i..Len(s) :
                 /\ (j = Len(s) \/ s[j + 1] \in WS)
                 /\ \A k \in i..j : s[k] \notin WS
    IN  SubSeq(s, i, j)

FirstWord(s) ==
    IF TokenStarts(s) = {} THEN <<>>
    ELSE TokenAt(s, CHOOSE i \in TokenStarts(s) : \A j \in TokenStarts(s) : i <= j)

Min(a, b) == IF a <= b THEN a ELSE b

RECURSIVE DecimalValue(_)
DecimalValue(ds) ==
    IF ds = <<>> THEN 0
    ELSE 10 * DecimalValue(SubSeq(ds, 1, Len(ds) - 1))
         + (CHOOSE d \in 0..9 : DigitChar(d) = ds[Len(ds)])

\* ds is the decimal numeral of n: digits only, no leading zero.
IsDecimalOf(ds, n) ==
    /\ Len(ds) >= 1
    /\ \A i \in 1..Len(ds) : \E d \in 0..9 : DigitChar(d) = ds[i]
    /\ (Len(ds) > 1 => ds[1] # "0")
    /\ DecimalValue(ds) = n

Has(log, x) == \E i \in 1..Len(log) : log[i] = x
Count(log, x) == Cardinality({i \in 1..Len(log) : log[i] = x})

\* This iteration has written its prompt.
Prompted == Len(out) >= 1 /\ out[1] = Lit(PROMPT)

WaitSucceeded == \E i \in 1..Len(ev) : ev[i][1] = "waitpid" /\ ev[i][2] > 0
WaitFailed == Has(ev, <<"waitpid", -1>>)
ForkFailed == Has(ev, <<"fork", -1>>)
Forked == \E i \in 1..Len(ev) : ev[i][1] = "fork" /\ ev[i][2] > 0

\* The command of this iteration has been read and is being, or has been, run.
HasLine == Prompted /\ rr = 1 /\ pc \notin {"read_line", "read_loop"}

\* The candidate of the home directory is one find_command_path considers.
HomeConsidered == env.set /\ env.val # <<>>
HomePath == PathOf(env.val, FirstWord(typed))
BinPath == PathOf(BIN, FirstWord(typed))
\* The caller may execute the file, or search the directory, that p names.
MayExecute(p) == p \in DOMAIN fs /\ fs[p] \in {"file_x", "dir_x"}
HomePasses == HomeConsidered /\ MayExecute(HomePath)
BinPasses == MayExecute(BinPath)

(***************************************************************************)
(* C1  After a successful waitpid the shell writes the success banner,     *)
(* whatever the child's status, and then exactly one status line chosen by *)
(* the status: "Return code: c" for an exit with code c, the signal        *)
(* message with s for a death by signal s, the unknown-status message      *)
(* otherwise.  The banner comes first.                                     *)
(***************************************************************************)
C1_StatusLineFor(w, tail) ==
    \/ /\ \E c \in 0..255 : w = W_EXITCODE(c)
       /\ Len(tail) = 3
       /\ tail[1] = Lit("Command finished. Return code: ")
       /\ tail[2].via = "write" /\ tail[2].lit = ""
       /\ \E c \in 0..255 : w = W_EXITCODE(c) /\ IsDecimalOf(tail[2].arg, c)
       /\ tail[3] = Lit("\n")
    \/ /\ \E sg \in 1..126, core \in BOOLEAN : w = W_SIGNALED(sg, core)
       /\ Len(tail) = 3
       /\ tail[1] = Lit("Command terminated by signal: ")
       /\ tail[2].via = "write" /\ tail[2].lit = ""
       /\ \E sg \in 1..126, core \in BOOLEAN :
              w = W_SIGNALED(sg, core) /\ IsDecimalOf(tail[2].arg, sg)
       /\ tail[3] = Lit("\n")
    \/ /\ ~\E c \in 0..255 : w = W_EXITCODE(c)
       /\ ~\E sg \in 1..126, core \in BOOLEAN : w = W_SIGNALED(sg, core)
       /\ tail = <<Lit("Command finished with unknown status.\n")>>

C1_IsStatusOpener(x) ==
    x \in { Lit("Command finished. Return code: "), Lit("Command terminated by signal: "),
            Lit("Command finished with unknown status.\n") }

\* C1: after a successful waitpid, the banner and then the one status line
\* that the child's status selects; the banner always comes first.
C1_BannerThenStatus ==
    /\ (pc = "prompt" /\ WaitSucceeded) =>
          /\ Len(out) >= 3
          /\ out[1] = Lit(PROMPT)
          /\ out[2] = Banner
          /\ C1_StatusLineFor(status, SubSeq(out, 3, Len(out)))
    /\ \A i \in 1..Len(out) : C1_IsStatusOpener(out[i]) => (i > 1 /\ out[i - 1] = Banner)
    /\ Count(out, Banner) <= 1
    /\ (Has(out, Banner) => WaitSucceeded)
    /\ (WaitSucceeded /\ ~Has(out, Banner)) => (pc = "report" \/ (pc = "exited" /\ exit_status = 1))

C1_Witness ==
    /\ pc = "prompt"
    /\ WaitSucceeded
    /\ status = W_EXITCODE(3)
    /\ out = <<Lit(PROMPT), Banner, Lit("Command finished. Return code: "), Dyn(<<"3">>), Lit("\n")>>

(***************************************************************************)
(* C2  A command name other than exit and cd for which neither candidate   *)
(* passes the executable check: the shell writes "]name]: Unknown          *)
(* Command[" to standard error, never forks (no child exists at any point  *)
(* of the iteration), writes nothing more to standard output, and is back  *)
(* at the prompt (a failed write to standard error ends the shell with     *)
(* status 1 instead, the message cut short).                               *)
(***************************************************************************)
C2_UnknownMessage(name) == <<Lit("]"), Dyn(name), Lit("]: Unknown Command[\n")>>

C2_NoCandidatePasses ==
    /\ HasLine
    /\ found # "none"
    /\ FirstWord(typed) \notin {W_exit, W_cd}
    /\ ~HomePasses
    /\ ~BinPasses

\* C2: no candidate passes: the unknown-command message on standard error,
\* no fork, no child, nothing more on standard output, back at the prompt.
C2_UnknownCommand ==
    C2_NoCandidatePasses =>
        /\ found = "no"
        /\ children = <<>>
        /\ ev = <<>>
        /\ out = <<Lit(PROMPT)>>
        /\ pc \in {"prompt", "exited"}
        /\ (pc = "prompt" => err = C2_UnknownMessage(FirstWord(typed)))
        /\ (pc = "exited" =>
               /\ exit_status = 1
               /\ \E k \in 0..2 : err = SubSeq(C2_UnknownMessage(FirstWord(typed)), 1, k))

C2_Witness ==
    /\ C2_NoCandidatePasses
    /\ pc = "prompt"
    /\ HomeConsidered
    /\ fs[HomePath] = "file_nox"
    /\ fs[BinPath] = "missing"
    /\ err = C2_UnknownMessage(W_ls)

(***************************************************************************)
(* C3  find_command_path returns the first of $HOME/cmd, /bin/cmd that     *)
(* passes the executable check and reports not-found exactly when neither  *)
(* passes; with HOME unset or empty only /bin/cmd is considered; the path  *)
(* handed to exec is the one that passed.                                  *)
(***************************************************************************)
C3_Expected == IF HomePasses THEN HomePath ELSE BinPath

\* C3: the first passing candidate of $HOME/cmd, /bin/cmd is the one found
\* and the one handed to exec; not found exactly when neither passes.
C3_FirstPassingCandidate ==
    (HasLine /\ found # "none") =>
        /\ (found = "yes") <=> (HomePasses \/ BinPasses)
        /\ (found = "yes") =>
              /\ path_buf = C3_Expected
              /\ MayExecute(path_buf)
              /\ \A p \in DOMAIN children : children[p].path = C3_Expected

C3_Witness ==
    /\ HasLine
    /\ found = "yes"
    /\ HomeConsidered
    /\ fs[HomePath] = "file_x"
    /\ fs[BinPath] = "file_nox"
    /\ \E p \in DOMAIN children : children[p].path = HomePath /\ children[p].pc = "program"

(***************************************************************************)
(* C4  A candidate path that names a directory is never treated as found:  *)
(* the shell reports unknown command and spawns no process.                *)
(***************************************************************************)
\* C4: candidates that name directories (or nothing) are never found, and
\* nothing is spawned for them.
C4_DirectoryNeverFound ==
    (HasLine /\ found # "none" /\ \A p \in {HomePath, BinPath} \cap DOMAIN fs :
                                      fs[p] \in {"dir_x", "missing"}) =>
        /\ found = "no"
        /\ children = <<>>
        /\ ~Forked

(***************************************************************************)
(* C5  The token list of a line holds its first min(n, 127) tokens, in     *)
(* order, n being the number of tokens of the line: text after the 127th   *)
(* token is ignored without an error.                                      *)
(***************************************************************************)
C5_Pointers == {argv[k] : k \in 1..argc}

C5_TokensOf(limit) ==
    pc = "parse_tokens_done" =>
        /\ argc = Min(Cardinality(TokenStarts(typed)), limit)
        /\ Len(argv) = argc + 1
        /\ argv[argc + 1] = NULLPTR
        /\ \A k \in 1..(argc - 1) : argv[k] < argv[k + 1]
        /\ C5_Pointers \subseteq TokenStarts(typed)
        /\ \A i \in TokenStarts(typed) :
              (argc > 0 /\ i <= argv[argc]) => i \in C5_Pointers
        /\ \A k \in 1..argc : CStr(line, argv[k]) = TokenAt(typed, argv[k])

\* C5 as stated: the token list holds the first min(n, 128) tokens.
C5_CapIs128 == C5_TokensOf(128)

\* C5 (amended): the token list holds the first min(n, MAX_ARGS - 1) tokens
\* of the line, in order.
C5_CapIs127 == C5_TokensOf(MAX_ARGS - 1)

C5_Witness ==
    /\ pc = "parse_tokens_done"
    /\ Cardinality(TokenStarts(typed)) = 129
    /\ argc = 127
    /\ CStr(line, argv[127]) = GenToken(127)

(***************************************************************************)
(* C6  The shell is strictly synchronous: it has at most one child at any  *)
(* time; while a child exists the shell sits in waitpid for that pid and   *)
(* does nothing else; waitpid returns only once that child has terminated; *)
(* so no prompt is written and no line read while a child runs, and the    *)
(* report of a command is on standard output before the next prompt.       *)
(***************************************************************************)
C6_ShellVars ==
    <<pc, exit_status, frees, line, cap, buf, len, rr, stdin, tty, src, got, typed, argv,
      argc, cwd, prev_cd, path_buf, found, pid, status, out, ev>>

C6_OneChildWaitedFor ==
    /\ Cardinality(DOMAIN children) <= 1
    /\ children # <<>> => (pc = "waitpid" /\ DOMAIN children = {pid})

C6_Step ==
    /\ pc = "waitpid" =>
          \/ UNCHANGED C6_ShellVars
          \/ /\ pid \in DOMAIN children
             /\ children[pid].pc = "zombie"
             /\ children' = <<>>
    /\ (pc = "prompt" /\ WaitSucceeded /\ pc' = "read_line") =>
          /\ children = <<>>
          /\ out = <<Lit(PROMPT)>> \o Report(status)

\* C6: at most one child, waited for by pid, with the shell idle until that
\* child has terminated; the report precedes the next prompt.
C6_Synchronous == [](C6_OneChildWaitedFor) /\ [][C6_Step]_vars

C6_Witness ==
    /\ pc = "waitpid"
    /\ pid \in DOMAIN children
    /\ children[pid].pc = "program"
    /\ out = <<Lit(PROMPT)>>

(***************************************************************************)
(* C7  When execv fails in the child, the child reports it on standard     *)
(* error and ends at once with exit code 127: it is never at a position of *)
(* the shell's loop, writes no prompt, reads no input, and the parent's    *)
(* waitpid sees a normal exit with code 127.                               *)
(***************************************************************************)
C7_ExecFailed == Has(err, perror("exec"))

\* C7: a child whose execv failed reports it once, exits with code 127 and
\* is never at a position of the shell's loop.
C7_ExecFailureExits127 ==
    /\ \A p \in DOMAIN children : children[p].pc \in {"execv", "program", "zombie"}
    /\ C7_ExecFailed =>
          /\ Count(err, perror("exec")) = 1
          /\ \A p \in DOMAIN children :
                children[p].pc = "zombie" /\ children[p].status = W_EXITCODE(127)
          /\ (pc = "waitpid" => (out = <<Lit(PROMPT)>> /\ stdin.bytes = <<>>))
          /\ WaitSucceeded => (status = W_EXITCODE(127) /\ WIFEXITED(status)
                                 /\ WEXITSTATUS(status) = 127)

C7_Witness ==
    /\ C7_ExecFailed
    /\ pc = "prompt"
    /\ WaitSucceeded
    /\ WEXITSTATUS(status) = 127
    /\ fs[path_buf] = "file_x"

(***************************************************************************)
(* C8  A failed waitpid is reported on standard error, and neither the     *)
(* banner nor a status line is written for that command; a failed fork is  *)
(* reported on standard error, nothing is written to standard output and   *)
(* nothing is waited for.  Either way the shell is back at the prompt.     *)
(***************************************************************************)
\* C8: a failed waitpid or fork is reported on standard error, nothing is
\* written to standard output, and the shell is back at the prompt.
C8_FailuresSkipReport ==
    /\ WaitFailed =>
          /\ pc = "prompt"
          /\ out = <<Lit(PROMPT)>>
          /\ Len(err) >= 1 /\ err[Len(err)] = perror("waitpid")
          /\ Count(err, perror("waitpid")) = 1
          /\ ~WaitSucceeded
    /\ ForkFailed =>
          /\ pc = "prompt"
          /\ out = <<Lit(PROMPT)>>
          /\ err = <<perror("fork")>>
          /\ children = <<>>
          /\ ev = <<<<"fork", -1>>>>

C8_Witness ==
    /\ WaitFailed
    /\ pc = "prompt"
    /\ Forked
    /\ err = <<perror("waitpid")>>

(***************************************************************************)
(* C9  A line that is empty or holds only spaces and tabs does nothing: no *)
(* built-in, no resolver, no process, the working directory as it was,     *)
(* nothing on standard error, and the prompt is the next thing written to  *)
(* standard output.                                                        *)
(***************************************************************************)
\* C9: an empty or blank line does nothing before the next prompt.
C9_BlankLineIsNoOp ==
    (HasLine /\ Blank(typed)) =>
        /\ pc \in {"main_rr", "prompt"}
        /\ found = "none"
        /\ children = <<>>
        /\ ev = <<>>
        /\ err = <<>>
        /\ out = <<Lit(PROMPT)>>
        /\ cwd = cwd0
        /\ frees = 0

C9_Witness ==
    /\ HasLine
    /\ typed = <<SP, TAB, SP>>
    /\ pc = "prompt"

(***************************************************************************)
(* C10  A first token that is exactly "exit" ends the loop, whatever       *)
(* follows it, and nothing is spawned; a first token that only starts with *)
(* or contains "exit" does not.  Whenever the shell leaves the loop (exit, *)
(* end of stream, read error) the buffer is released exactly once, and     *)
(* nothing touches it afterwards.                                          *)
(***************************************************************************)
C10_LeftLoop == pc = "free" \/ (pc = "exited" /\ exit_status = 0)

\* C10: exactly the first token "exit" ends the loop, spawning nothing; the
\* buffer is released exactly once on leaving the loop and not touched after.
C10_ExitAndRelease ==
    /\ (HasLine /\ FirstWord(typed) = W_exit) =>
          /\ pc \in {"main_rr", "dispatch", "free", "exited"}
          /\ (pc = "exited" => exit_status = 0)
          /\ children = <<>>
          /\ found = "none"
          /\ ev = <<>>
    /\ (C10_LeftLoop /\ rr = 1) => FirstWord(typed) = W_exit
    /\ frees <= 1
    /\ (pc = "exited" /\ exit_status = 0) => (frees = 1 /\ buf # "alloc")
    /\ (frees = 1 \/ buf = "freed") => pc = "exited"
    /\ pc = "free" => frees = 0

C10_Witness ==
    /\ pc = "exited"
    /\ exit_status = 0
    /\ frees = 1
    /\ buf = "freed"
    /\ typed = W_exit \o <<SP, "x">>

(***************************************************************************)
(* C11  End of input with no byte read: the shell writes one newline after *)
(* the prompt and leaves with status 0, having parsed nothing, resolved    *)
(* nothing, changed no directory and spawned nothing; on the very first    *)
(* prompt nothing was ever stored in the buffer.  The shell's status is 0  *)
(* whenever it leaves through exit or the end of the stream (a failed      *)
(* write of the newline ends it with status 1 instead).                    *)
(***************************************************************************)
C11_AtEof == Prompted /\ rr = 0 /\ pc \in {"free", "exited"}

\* C11: at the end of the stream with no input the shell writes a single
\* newline, dispatches and spawns nothing, and exits with status 0; the exit
\* command gives status 0 as well.
C11_EofExitsZero ==
    /\ rr = 0 => pc \in {"main_rr", "free", "exited"}
    /\ C11_AtEof =>
          /\ typed = <<>>
          /\ argc = 0
          /\ found = "none"
          /\ ev = <<>>
          /\ err = <<>>
          /\ children = <<>>
          /\ cwd = cwd0
          /\ \/ out = <<Lit(PROMPT), Lit("\n")>> /\ (pc = "exited" => exit_status = 0)
             \/ out = <<Lit(PROMPT)>> /\ pc = "exited" /\ exit_status = 1
    /\ (pc = "exited" /\ HasLine /\ FirstWord(typed) = W_exit) => exit_status = 0

C11_Witness ==
    /\ C11_AtEof
    /\ pc = "exited"
    /\ exit_status = 0
    /\ line = <<>>
    /\ out = <<Lit(PROMPT), Lit("\n")>>

(***************************************************************************)
(* C12  cd without an argument and HOME naming a directory: the working    *)
(* directory is HOME afterwards, wherever the shell was.  cd with a path   *)
(* that names a directory: the working directory is that directory.  cd    *)
(* without an argument and HOME unset or empty: "cd: HOME not set" on      *)
(* standard error, no chdir, the working directory as it was.              *)
(***************************************************************************)
\* The n-th token of s.
NthToken(s, n) ==
    TokenAt(s, CHOOSE i \in TokenStarts(s) : Cardinality({j \in TokenStarts(s) : j <= i}) = n)

\* The directory a path names, looked up from the directory wd.
DirNamed(wd, path) == Walk(IF Head(path) = "/" THEN <<>> ELSE wd, Components(path, <<>>))

CdDone == HasLine /\ FirstWord(typed) = W_cd /\ pc = "prompt"

\* C12: cd goes to HOME without an argument, to the named directory with
\* one, and only reports on standard error when HOME is unset or empty.
C12_CdChangesDirectory ==
    /\ (CdDone /\ Cardinality(TokenStarts(typed)) = 1 /\ HomeConsidered
            /\ DirNamed(cwd0, env.val).ret = 0) =>
          /\ cwd = DirNamed(cwd0, env.val).dir
          /\ cwd = Components(env.val, <<>>)
          /\ err = <<>>
    /\ (CdDone /\ Cardinality(TokenStarts(typed)) >= 2
            /\ DirNamed(cwd0, NthToken(typed, 2)).ret = 0) =>
          /\ cwd = DirNamed(cwd0, NthToken(typed, 2)).dir
          /\ err = <<>>
    /\ (CdDone /\ Cardinality(TokenStarts(typed)) = 1 /\ ~HomeConsidered) =>
          /\ err = <<Lit("cd: HOME not set\n")>>
          /\ ev = <<>>
          /\ cwd = cwd0
    /\ (HasLine /\ FirstWord(typed) = W_cd) =>
          /\ pc \in {"main_rr", "dispatch", "prompt", "exited"}
          /\ out = <<Lit(PROMPT)>>
          /\ children = <<>>
          /\ found = "none"
          /\ pc = "exited" =>
                (exit_status = 1 /\ err = <<>> /\ ~HomeConsidered /\ cwd = cwd0)

C12_Witness ==
    /\ CdDone
    /\ typed = W_cd
    /\ env.val = <<"/", "h">>
    /\ cwd0 = << <<"t">> >>
    /\ cwd = << <<"h">> >>
    /\ prev_cd = [ok |-> TRUE, line |-> W_cd \o <<SP, "/", "t">>]

(***************************************************************************)
(* C13  Repeating a cd.  The previous command was a cd whose chdir         *)
(* succeeded, and this command is a cd with the same target: as stated,    *)
(* for any such target this chdir succeeds too, nothing is reported and    *)
(* the working directory stays where the first cd left it.  That holds for *)
(* an absolute target; a relative one is looked up from the directory the  *)
(* first cd moved to.                                                      *)
(***************************************************************************)
\* The path a cd line hands to chdir.
CdArgOf(s) == IF Cardinality(TokenStarts(s)) >= 2 THEN NthToken(s, 2) ELSE env.val

C13_Repeat(anyTarget) ==
    (/\ CdDone
     /\ prev_cd.ok
     /\ CdArgOf(typed) = CdArgOf(prev_cd.line)
     /\ (anyTarget \/ Head(CdArgOf(typed)) = "/")) =>
        /\ ev = << <<"chdir", 0>> >>
        /\ err = <<>>
        /\ cwd = cwd0

\* C13 as stated: a second cd to any target that was valid the first time
\* succeeds silently and leaves the working directory where the first left it.
C13_AnyTarget == C13_Repeat(TRUE)

\* C13 (amended): a second cd to the same absolute target succeeds silently
\* and leaves the working directory where the first cd left it.
C13_AbsoluteTarget == C13_Repeat(FALSE)

C13_Witness ==
    /\ CdDone
    /\ typed = W_cd \o <<SP, "/", "h", SP, "t">>
    /\ prev_cd = [ok |-> TRUE, line |-> W_cd]
    /\ env.val = <<"/", "h">>
    /\ ev = << <<"chdir", 0>> >>
    /\ cwd = << <<"h">> >>
    /\ cwd0 = cwd

(***************************************************************************)
(* C14  The recoverable errors: a failed chdir, cd with HOME unset or      *)
(* empty, an unknown command, a failed fork, a failed waitpid, a failed    *)
(* exec in the child.  Each puts one line on standard error and leaves the *)
(* shell in its loop; a failed cd leaves the working directory as it was.  *)
(* As stated, the prompt is the next thing the shell writes after any of   *)
(* them; after a failed exec whose child was waited for, the shell writes  *)
(* the banner and "Return code: 127" first.  A failed write of a message   *)
(* is write_all's _exit(1), here as everywhere.                            *)
(***************************************************************************)
ChdirFailed == Has(ev, <<"chdir", -1>>)
HomeNotSet ==
    HasLine /\ FirstWord(typed) = W_cd /\ Cardinality(TokenStarts(typed)) = 1 /\ ~HomeConsidered
        /\ pc \in {"prompt", "exited"}
UnknownCommand == found = "no"
ExecFailed == Has(err, perror("exec"))

\* The errors of this iteration, as a bag of their kinds.
Errors ==
    {k \in {"chdir", "home", "unknown", "fork", "waitpid", "exec"} :
        \/ k = "chdir" /\ ChdirFailed
        \/ k = "home" /\ HomeNotSet
        \/ k = "unknown" /\ UnknownCommand
        \/ k = "fork" /\ ForkFailed
        \/ k = "waitpid" /\ WaitFailed
        \/ k = "exec" /\ ExecFailed}

\* An item that ends a line of standard error.
EndsLine(x) ==
    x.via = "perror" \/ x.lit \in {"cd: HOME not set\n", "]: Unknown Command[\n", "\n"}

StderrLines == Cardinality({i \in 1..Len(err) : EndsLine(err[i])})

\* A write(2) of the shell failed: write_all ended the process with status 1.
WriteFailed == pc = "exited" /\ exit_status = 1

C14_Recoverable(afterExec) ==
    (Prompted /\ Errors # {} /\ ~WriteFailed) =>
        /\ pc \in {"prompt", "waitpid", "report"}
        /\ frees = 0
        /\ ({"chdir", "home"} \cap Errors # {}) => cwd = cwd0
        /\ pc = "prompt" =>
              /\ StderrLines = Cardinality(Errors)
              /\ Len(err) >= 1 /\ EndsLine(err[Len(err)])
              /\ out = <<Lit(PROMPT)>> \o (IF ExecFailed /\ WaitSucceeded THEN afterExec ELSE <<>>)

\* C14 as stated: after every recoverable error, one line on standard error
\* per error, the shell still in its loop, and the prompt the next thing it
\* writes.
C14_PromptIsNext == C14_Recoverable(<<>>)

\* C14 (amended): as stated, but after a failed exec whose child was waited
\* for the shell first writes the banner and "Return code: 127".
C14_PromptOrExecReport ==
    C14_Recoverable(<<Banner, Lit("Command finished. Return code: "), Dyn(<<"1", "2", "7">>),
                      Lit("\n")>>)

C14_Witness ==
    /\ pc = "prompt"
    /\ Errors = {"exec"}
    /\ WaitSucceeded
    /\ err = <<perror("exec")>>
    /\ out = <<Lit(PROMPT), Banner, Lit("Command finished. Return code: "),
               Dyn(<<"1", "2", "7">>), Lit("\n")>>

(***************************************************************************)
(* C15  read_line on a stream: the k-th call that returns a line returns   *)
(* the k-th line of the stream, that is the bytes between the (k-1)-th and *)
(* the k-th newline, the newline consumed and not stored; bytes after the  *)
(* last newline are returned as a line when the stream ends; end of stream *)
(* is returned exactly by the call after the last line; what remains       *)
(* unread after a call is exactly what follows the line it returned.       *)
(***************************************************************************)
Newlines == {i \in 1..Len(src) : src[i] = NL}

NthNewline(k) == CHOOSE i \in Newlines : Cardinality({j \in Newlines : j <= i}) = k

LastNewline == IF Newlines = {} THEN 0 ELSE NthNewline(Cardinality(Newlines))

\* The number of lines of the stream: each newline ends one, and bytes after
\* the last newline make one more.
NumLines == Cardinality(Newlines) + (IF LastNewline < Len(src) THEN 1 ELSE 0)

LineStart(k) == IF k = 1 THEN 1 ELSE NthNewline(k - 1) + 1
LineEnd(k) == IF k <= Cardinality(Newlines) THEN NthNewline(k) - 1 ELSE Len(src)
SrcLine(k) == SubSeq(src, LineStart(k), LineEnd(k))

\* The bytes of the stream that read(2) has delivered.
Consumed == Len(src) - Len(stdin.bytes)

\* C15: the calls of read_line return the lines of the stream in order,
\* without their newline, a last unterminated line included, then end of
\* stream; nothing is lost, repeated or left over from an earlier line.
C15_ReturnsTheLines ==
    /\ stdin.bytes = SubSeq(src, Consumed + 1, Len(src))
    /\ \A k \in 1..Len(got) :
          /\ got[k].rr > 0 =>
                /\ k <= NumLines
                /\ got[k].bytes = SrcLine(k)
                /\ (\A i \in 1..Len(got[k].bytes) : got[k].bytes[i] # NUL) =>
                       got[k].str = SrcLine(k)
          /\ got[k].rr = 0 =>
                /\ k = NumLines + 1
                /\ stdin = [bytes |-> <<>>, end |-> "EOF"]
          /\ got[k].rr <= 0 => (k = Len(got) /\ pc = "read_done")
    /\ (pc = "read_line" /\ Len(got) >= 1) =>
          Consumed = Min(LineEnd(Len(got)) + 1, Len(src))

C15_Witness ==
    /\ pc = "read_done"
    /\ Len(got) = 3
    /\ got[1].rr = 1 /\ got[1].bytes = LongLine(2 * INITIAL_BUFSZ - 1)
    /\ got[2].rr = 1 /\ got[2].str = <<"b">>
    /\ got[3].rr = 0
    /\ src = LongLine(2 * INITIAL_BUFSZ - 1) \o <<NL, "b">>

(***************************************************************************)
(* C16  The buffer of read_line: every store, the terminator's included,   *)
(* is below the capacity; the capacity starts at INITIAL_BUFSZ and changes *)
(* only by doubling; a call that finds the buffer allocated keeps it, with *)
(* its capacity; the bytes accumulated so far survive the growth.          *)
(***************************************************************************)
C16_WithinCapacity ==
    /\ Len(line) <= cap
    /\ buf = "alloc" => len < cap
    /\ cap \in {0, INITIAL_BUFSZ, 2 * INITIAL_BUFSZ, 4 * INITIAL_BUFSZ}

C16_Step ==
    /\ cap' = cap \/ cap' = 2 * cap \/ (cap = 0 /\ cap' = INITIAL_BUFSZ)
    /\ (cap > 0 /\ cap' > cap) => SubSeq(line', 1, len) = SubSeq(line, 1, len)
    /\ buf = "alloc" => (buf' = "alloc" /\ Len(line') >= Len(line))
    /\ (buf = "alloc" /\ pc = "read_line") => cap' = cap

\* C16: stores stay below the capacity, which only doubles; the buffer is
\* reused by later calls and growth keeps the bytes accumulated so far.
C16_BufferDiscipline == [](C16_WithinCapacity) /\ [][C16_Step]_vars

C16_Witness ==
    /\ pc = "read_loop"
    /\ cap = 4 * INITIAL_BUFSZ
    /\ Len(got) = 1
    /\ got[1].bytes = LongLine(2 * INITIAL_BUFSZ - 1)
    /\ len = 1
    /\ line[1] = "b"
    /\ line[2] = STALE

(***************************************************************************)
(* C17  The tokens of a line with fewer than MAX_ARGS tokens are its       *)
(* maximal runs of characters other than space and tab, left to right:     *)
(* none is empty or holds a separator, runs of separators and leading or   *)
(* trailing separators make no token.  A token is the place of the buffer  *)
(* where it was typed: the buffer changes only in that the separator right *)
(* after a token becomes a terminator.                                     *)
(***************************************************************************)
C17_FewTokens == pc = "parse_tokens_done" /\ Cardinality(TokenStarts(typed)) < MAX_ARGS

\* C17: below the cap, the tokens are exactly the maximal separator-free
\* runs of the line, in order and in place, each ended by a terminator
\* written over the separator that followed it.
C17_MaximalRunsInPlace ==
    C17_FewTokens =>
        /\ argc = Cardinality(TokenStarts(typed))
        /\ {argv[k] : k \in 1..argc} = TokenStarts(typed)
        /\ \A k \in 1..(argc - 1) : argv[k] < argv[k + 1]
        /\ \A k \in 1..argc :
              LET t == CStr(line, argv[k]) IN
              /\ t # <<>>
              /\ \A i \in 1..Len(t) : t[i] \notin WS
              /\ t = SubSeq(typed, argv[k], argv[k] + Len(t) - 1)
              /\ (argv[k] + Len(t) <= Len(typed) => typed[argv[k] + Len(t)] \in WS)
              /\ line[argv[k] + Len(t)] = NUL
        /\ Len(line) = Len(typed) + 1
        /\ \A i \in 1..Len(typed) :
              line[i] = IF typed[i] \in WS /\ i > 1 /\ typed[i - 1] \notin WS THEN NUL
                        ELSE typed[i]

C17_Witness ==
    /\ pc = "parse_tokens_done"
    /\ typed = <<SP>> \o GenLine(MAX_ARGS - 1, <<SP, TAB, SP>>) \o <<TAB>>
    /\ argc = MAX_ARGS - 1
    /\ argv[1] = 2
    /\ CStr(line, argv[2]) = GenToken(2)
    /\ line[5] = NUL /\ line[6] = TAB /\ line[7] = SP

(***************************************************************************)
(* C18  find_command_path and the 4096 bytes of path_buf: a path is built  *)
(* only when it fits with its terminator, so what is in path_buf is a      *)
(* whole candidate and ends below index PATH_BUF_SZ.  A candidate that     *)
(* does not fit is passed over without a message and the other one is      *)
(* still tried; when neither fits the command is unknown.                  *)
(***************************************************************************)
HomeFits == HomeConsidered /\ Len(HomePath) + 1 <= PATH_BUF_SZ
BinFits == Len(BinPath) + 1 <= PATH_BUF_SZ

\* C18: path_buf never holds more than a whole candidate that fits; a
\* candidate that does not fit is skipped for its directory only, and with
\* both skipped the command is reported unknown.
C18_PathFitsOrSkipped ==
    /\ Len(path_buf) + 1 <= PATH_BUF_SZ
    /\ found # "none" =>
          /\ (found = "yes") <=>
                 ((HomeFits /\ MayExecute(HomePath)) \/ (BinFits /\ MayExecute(BinPath)))
          /\ found = "yes" =>
                 /\ path_buf = IF HomeFits /\ MayExecute(HomePath) THEN HomePath ELSE BinPath
                 /\ err = <<>>
                 /\ pc = "fork"
          /\ found = "no" =>
                 /\ pc \in {"prompt", "exited"}
                 /\ pc = "prompt" => err = C2_UnknownMessage(typed)
                 /\ pc = "exited" =>
                        (exit_status = 1
                            /\ \E k \in 0..2 : err = SubSeq(C2_UnknownMessage(typed), 1, k))
          /\ (~HomeFits /\ ~BinFits) => (found = "no" /\ path_buf = <<>>)

C18_Witness ==
    /\ found = "yes"
    /\ ~BinFits
    /\ fs[BinPath] = "file_x"
    /\ HomeFits
    /\ path_buf = HomePath
    /\ Len(path_buf) + 1 = PATH_BUF_SZ
    /\ pc = "fork"

(***************************************************************************)
(* C19  The argument array of MAX_ARGS entries: parse_tokens writes        *)
(* entries 0..argc and nothing above MAX_ARGS - 1, entry argc being the    *)
(* NULL sentinel and the entries below it pointers into the line.  The     *)
(* vector the child hands to execv is that array up to its sentinel: its   *)
(* strings are the tokens parse_tokens kept, in order, and the first is    *)
(* the command name as typed, not the path that was resolved.              *)
(***************************************************************************)
C19_ArgvInBounds ==
    /\ Len(argv) <= MAX_ARGS
    /\ Len(argv) = argc + 1
    /\ argv[argc + 1] = NULLPTR
    /\ \A k \in 1..argc : argv[k] \in 1..Len(typed)

C19_ExecvVector(c) ==
    /\ Len(c.args) = argc
    /\ argc = Min(Cardinality(TokenStarts(typed)), MAX_ARGS - 1)
    /\ \A k \in 1..argc : c.args[k] = TokenAt(typed, argv[k])
    /\ \A k \in 1..(argc - 1) : argv[k] < argv[k + 1]
    /\ {argv[k] : k \in 1..argc} \subseteq TokenStarts(typed)
    /\ \A i \in TokenStarts(typed) : i <= argv[argc] => i \in {argv[k] : k \in 1..argc}
    /\ c.args[1] = FirstWord(typed)
    /\ c.argv0 = FirstWord(typed)
    /\ c.path \in {HomePath, BinPath}
    /\ c.args[1] # c.path

\* C19: the argument array is written within its MAX_ARGS entries and ends
\* with the sentinel at index argc; execv gets the kept tokens in order,
\* the first being the command name as typed.
C19_SentinelAndExecvVector ==
    /\ C19_ArgvInBounds
    /\ \A p \in DOMAIN children : C19_ExecvVector(children[p])

C19_Witness ==
    /\ \E p \in DOMAIN children :
          /\ children[p].pc = "program"
          /\ Len(children[p].args) = MAX_ARGS - 1
          /\ children[p].args[1] = GenToken(1)
          /\ children[p].args[MAX_ARGS - 1] = GenToken(MAX_ARGS - 1)
          /\ children[p].path = PathOf(BIN, GenToken(1))
    /\ Cardinality(TokenStarts(typed)) = MAX_ARGS + 1
    /\ Len(argv) = MAX_ARGS

(***************************************************************************)
(* C20  On a finite input stream, with children that terminate, the shell  *)
(* terminates.  A turn of read_line's loop consumes a byte or returns, so  *)
(* an iteration consumes a byte or sees the end of the stream; nothing     *)
(* puts a byte back; the shell can always take a step except while it      *)
(* waits for a child that has not terminated; after the end of the stream, *)
(* a read error or exit the next steps lead to process exit.               *)
(***************************************************************************)
C20_Waiting == pc = "waitpid" /\ pid \in DOMAIN children /\ children[pid].pc # "zombie"

C20_OnlyWaitBlocks == pc # "exited" => (ENABLED ShellStep \/ C20_Waiting)

C20_Progress ==
    /\ Len(stdin.bytes') <= Len(stdin.bytes)
    /\ pc = "read_loop" => (Len(stdin.bytes') < Len(stdin.bytes) \/ pc' = "main_rr")
    /\ (pc = "read_loop" /\ pc' = "main_rr" /\ rr' > 0) =>
          (Len(stdin.bytes') < Len(stdin.bytes) \/ stdin = [bytes |-> <<>>, end |-> "EOF"])
    /\ (pc = "main_rr" /\ rr <= 0) => pc' \in {"free", "exited"}
    /\ pc = "free" => pc' = "exited"

\* C20: on a finite stream with terminating children the shell reaches
\* process exit; only the wait for a running child can hold it up.
C20_Terminates ==
    /\ <>(pc = "exited")
    /\ [](C20_OnlyWaitBlocks)
    /\ [][C20_Progress]_vars

C20_Witness ==
    /\ pc = "exited"
    /\ exit_status = 0
    /\ rr = 0
    /\ src = W_ls \o <<NL>> \o W_ls
    /\ stdin = [bytes |-> <<>>, end |-> "EOF"]
    /\ prev_cd = NoPrevCd
    /\ Len(line) = 3

====
